---- MODULE Spec2Model ----
(***************************************************************************)
(* A model of the L2 book synchronisation engine: the BookFsm state        *)
(* machine (src/src/l2_book/fsm.rs), the reference Binance sequencer       *)
(* (src/src/binance/book.rs), the BookProcessor actor that drives the FSM   *)
(* (src/src/l2_book/tokio.rs), and the keyed lists of the order book        *)
(* (src/src/orderbook/queue.rs, src/src/orderbook/linkedlist.rs).           *)
(***************************************************************************)
EXTENDS Integers, Sequences, FiniteSets, TLC

\* ------------------------------------------------------------------------
\* Bounds of the model
\* ------------------------------------------------------------------------

\* Sequence ids range over 0..MaxSeq.
MaxSeq == 2

\* The replay buffer is a growable VecDeque; the model stops buffering here.
MaxBuf == 2

\* BookFsm::new reserves room for 100 orders in the replay buffer
\* (VecDeque::with_capacity); the FSM of the model reserves room for BufCapacity.
BufCapacity == 1

\* The inbound mailbox of the model holds at most MaxMailbox messages.
MaxMailbox == 1

\* The publication channel of the model holds at most MaxPub snapshots.
MaxPub == 2

\* At most MaxWriters BookWriter handles are alive at a time.
MaxWriters == 1

\* The values stored in a keyed list are 1..MaxValue.
MaxValue == 2

\* The u64 of the model is Width bits wide.
Width == 3

\* The venue of the model makes the book changes 1..MaxEvent.
MaxEvent == 4

\* The clock of the model runs from 0 to MaxTime.
MaxTime == 4

\* The publication interval and the depth the processor of the model is built with.
PubInterval == 2
Depth == 1

\* The fetcher of the model fails at most MaxFail times, then succeeds.
MaxFail == 1

\* ------------------------------------------------------------------------
\* Program constants
\* ------------------------------------------------------------------------

ZERO_SIZE == 0

\* u64 holds 0..(U64 - 1).
U64 == 2 ^ Width

\* ------------------------------------------------------------------------
\* Values
\* ------------------------------------------------------------------------

\* BTreeMap<Price, Size>: a function from the keys present to their sizes.
EmptyLadder == [p \in {} |-> 0]

insert(ladder, p, s) ==
    [q \in (DOMAIN ladder) \cup {p} |-> IF q = p THEN s ELSE ladder[q]]

remove(ladder, p) ==
    [q \in (DOMAIN ladder) \ {p} |-> ladder[q]]

\* PriceSize(price, size)
PriceSize(p, s) == <<p, s>>
price(pxsz) == pxsz[1]
size(pxsz) == pxsz[2]

\* DepthUpdateSeq: the venue's sequencing fields of a depth update.
DepthUpdateSeq(first, last, prev) ==
    [first_update_id |-> first, last_update_id |-> last, previous_update_id |-> prev]

\* Order<O>
Order(id, bids_, asks_, snap, ts, o) ==
    [id |-> id, bids |-> bids_, asks |-> asks_, is_snapshot |-> snap, ts_ms |-> ts, o |-> o]

\* From<DepthUpdate> for Order: an incremental; id is the last update id.
DepthUpdateOrder(first, last, prev, bids_, asks_, ts) ==
    Order(last, bids_, asks_, FALSE, ts, DepthUpdateSeq(first, last, prev))

\* fetch_snapshot's Ok value: a snapshot; all three ids are lastUpdateId.
SnapshotOrder(last, bids_, asks_, ts) ==
    Order(last, bids_, asks_, TRUE, ts, DepthUpdateSeq(last, last, last))

\* ------------------------------------------------------------------------
\* Inputs
\* ------------------------------------------------------------------------

Seqs == 0..MaxSeq

\* The price levels and the time of the venue's depth update ending at id l; some
\* updates name a price twice.
Delta(l) ==
    [bids |-> <<PriceSize(1, l % 2)>>,
     asks |-> IF l % 4 = 2 THEN <<PriceSize(3, 2), PriceSize(3, 1)>>
              ELSE <<PriceSize(3, 1 + (l % 2))>>,
     ts_ms |-> l + 1]

\* The book and the time of the venue's REST snapshot at id l; the venue's book
\* is empty at some ids, and a price is any u64, 0 included.
Book(l) ==
    IF l % 2 = 1
    THEN [bids |-> <<PriceSize(0, 1)>>, asks |-> <<PriceSize(2, 2)>>, ts_ms |-> l + 1]
    ELSE [bids |-> <<>>, asks |-> <<>>, ts_ms |-> l + 1]

\* Depth updates as the venue shapes them: previous < first <= last.
Incrementals ==
    { DepthUpdateOrder(x[1], x[2], x[3], Delta(x[2]).bids, Delta(x[2]).asks,
                       Delta(x[2]).ts_ms) :
        x \in { y \in Seqs \X Seqs \X Seqs : y[3] < y[1] /\ y[1] <= y[2] } }

Snapshots ==
    { SnapshotOrder(l, Book(l).bids, Book(l).asks, Book(l).ts_ms) : l \in Seqs }

Orders == Incrementals \cup Snapshots

\* The orders of the FSM's unit tests (mod test of fsm.rs).
TestOrder(prev, start, end) == [prev_seq |-> prev, start_seq |-> start, end_seq |-> end]

\* ts_ms is the clock reading of the test run; the tests never look at it.
mk_order(is_snapshot, o) == Order(o.end_seq, <<>>, <<>>, is_snapshot, 1, o)

inc(prev, start, end) == mk_order(FALSE, TestOrder(prev, start, end))

snap(prev, start, end) == mk_order(TRUE, TestOrder(prev, start, end))

TestOrders ==
    { inc(2, 3, 5), inc(5, 7, 10), snap(0, 0, 7), snap(0, 0, 11), inc(10, 13, 14) }

\* The sequencers an FSM of the model is built with, and the orders fed to each.
Sequencers == {"Binance", "Overlap", "Test"}

OrdersOf(s) == IF s = "Test" THEN TestOrders ELSE Orders

\* ------------------------------------------------------------------------
\* State
\* ------------------------------------------------------------------------

VARIABLES
    state,          \* BookFsm.state
    asks,           \* BookFsm.asks
    bids,           \* BookFsm.bids
    buffer,         \* BookFsm.buffer
    cur_sequence,   \* BookFsm.cur_sequence
    ts_ms,          \* BookFsm.ts_ms
    sequencer,      \* BookFsm.sequencer: which BookSequencer the FSM was built with
    action,         \* the BookAction the last update() call returned
    fed,            \* history: the orders the last update() call dispatched, in order
    applied,        \* history: the orders the last update() call applied, in order
    dropped,        \* history: how many buffered orders the last update() call cleared
    chain,          \* history: the run of applied orders since the last applied snapshot
    pc,             \* BookProcessor: "recv" awaiting the mailbox, "fetch" the fetcher,
                    \* "send" the publication channel; "done" when run has returned
    book_msg_rx,    \* the inbound mailbox, oldest message first
    snap_at,        \* BookProcessor.snap_at
    pub_at,         \* BookProcessor.pub_at
    now,            \* the clock, Instant::now()
    published,      \* history: the BookSnapshots sent on book_pub_tx, oldest first
    failures,       \* history: how many fetch_snapshot calls failed
    since_fail,     \* history: the updates handled since a fetch failed, if the last did
    anchor,         \* history: the snap_at of the first snapshot that was installed
    reply,          \* history: what the last handled message sent on its reply channel
    pub_interval,   \* BookProcessor.pub_interval
    sending,        \* the BookSnapshot whose send on book_pub_tx is awaited, if any
    book_pub_rx,    \* the publication channel, oldest snapshot first
    received,       \* history: the BookSnapshots Book::recv returned, oldest first
    book,           \* whether the Book handle is alive
    writers,        \* how many BookWriter handles are alive
    kind,           \* which keyed list the value of list is: "Queue" or "LinkedList"
    list,           \* a Queue or LinkedList: keys, backing, head, tail
    ret             \* the last call on the list: the operation, its arguments, what it returned

fsm_vars == <<state, asks, bids, buffer, cur_sequence, ts_ms, sequencer>>
call_vars == <<action, fed, applied, dropped, chain>>
chan_vars == <<sending, book_pub_rx, received>>
book_vars == <<pub_interval, book, writers>>
list_vars == <<kind, list, ret>>
proc_vars == <<pc, book_msg_rx, snap_at, pub_at, now, published, failures, since_fail,
               anchor, reply, chan_vars, book_vars>>
vars == <<state, asks, bids, buffer, cur_sequence, ts_ms, sequencer,
          action, fed, applied, dropped, chain,
          pc, book_msg_rx, snap_at, pub_at, now, published, failures, since_fail,
          anchor, reply, pub_interval, sending, book_pub_rx, received, book, writers,
          kind, list, ret>>

\* Option<Instant>
None == <<>>
Some(t) == <<t>>

\* No order was applied yet.
NoChain == [snap |-> FALSE, n |-> 0, id |-> 0, snap_id |-> 0, snap_st |-> "Init"]

\* The FSM as one value, as the methods below take and return it.
Fsm == [state |-> state, asks |-> asks, bids |-> bids, buffer |-> buffer,
        cur_sequence |-> cur_sequence, ts_ms |-> ts_ms, sequencer |-> sequencer,
        fed |-> fed, applied |-> applied, dropped |-> dropped, chain |-> chain]

\* ------------------------------------------------------------------------
\* BookSequencer
\* ------------------------------------------------------------------------

\* BinanceBookSequencer
\* Mutant: whatever starts at or before cur_seq is the first event.
binance_is_first_event_from_start(cur_seq, update) ==
    update.o.first_update_id <= cur_seq

binance_is_first_event(cur_seq, update) ==
    update.o.first_update_id <= cur_seq /\ cur_seq <= update.o.last_update_id

binance_is_stale(cur_seq, update) ==
    cur_seq < update.o.first_update_id

binance_is_next(cur_seq, update) ==
    cur_seq = update.o.previous_update_id

\* TestSequencer
test_is_first_event(cur_seq, update) ==
    update.o.start_seq <= cur_seq /\ cur_seq <= update.o.end_seq

test_is_stale(cur_seq, update) ==
    cur_seq < update.o.start_seq

test_is_next(cur_seq, update) ==
    cur_seq = update.o.prev_seq

\* The trait leaves the predicates to its implementor, and nothing keeps them
\* exclusive. This implementor calls stale whatever ends after cur_seq, so that an
\* update bridging cur_seq with first <= cur_seq < last is first event and stale.
overlap_is_stale(cur_seq, update) ==
    cur_seq < update.o.last_update_id

\* The trait's dispatch to the sequencer the FSM was built with.
is_first_event(f, update) ==
    IF f.sequencer = "Test" THEN test_is_first_event(f.cur_sequence, update)
    ELSE binance_is_first_event(f.cur_sequence, update)

is_stale(f, update) ==
    CASE f.sequencer = "Test" -> test_is_stale(f.cur_sequence, update)
      [] f.sequencer = "Overlap" -> overlap_is_stale(f.cur_sequence, update)
      [] OTHER -> binance_is_stale(f.cur_sequence, update)

is_next(f, update) ==
    IF f.sequencer = "Test" THEN test_is_next(f.cur_sequence, update)
    ELSE binance_is_next(f.cur_sequence, update)

\* ------------------------------------------------------------------------
\* BookFsm
\* ------------------------------------------------------------------------

RECURSIVE apply_levels(_, _)

\* Mutant: a level of size zero is inserted like any other.
apply_levels_inserts_zero(ladder, levels) ==
    IF levels = <<>> THEN ladder
    ELSE apply_levels(insert(ladder, price(Head(levels)), size(Head(levels))),
                      Tail(levels))

\* Mutant: the levels are gone through from the last to the first.
apply_levels_last_first(ladder, levels) ==
    IF levels = <<>> THEN ladder
    ELSE LET l == apply_levels(ladder, Tail(levels))
         IN  IF size(Head(levels)) = ZERO_SIZE
             THEN remove(l, price(Head(levels)))
             ELSE insert(l, price(Head(levels)), size(Head(levels)))

apply_levels(ladder, levels) ==
    IF levels = <<>> THEN ladder
    ELSE apply_levels(
            IF size(Head(levels)) = ZERO_SIZE
            THEN remove(ladder, price(Head(levels)))
            ELSE insert(ladder, price(Head(levels)), size(Head(levels))),
            Tail(levels))

\* The run of applied orders after one more: whether it starts with a snapshot,
\* how many incrementals follow it (2 stands for two or more), the id of the
\* last applied order, and the snapshot's id and the state it was applied in.
Chain(f, o) ==
    IF o.is_snapshot
    THEN [snap |-> TRUE, n |-> 0, id |-> o.id, snap_id |-> o.id, snap_st |-> f.state]
    ELSE [f.chain EXCEPT !.n = IF f.chain.n = 0 THEN 1 ELSE 2, !.id = o.id]

\* What the history records of an applied order: the state and cur_sequence it
\* met, the id of the order applied just before it, the run it extends, its
\* ts_ms and price levels, and the FSM that apply_order left (g): its
\* cur_sequence, ts_ms and ladders.
Applied(f, o, g) ==
    [id |-> o.id, is_snapshot |-> o.is_snapshot, o |-> o.o,
     st |-> f.state, cur |-> f.cur_sequence, after |-> f.chain.id,
     run |-> Chain(f, o),
     ts_ms |-> o.ts_ms,
     levels |-> [bids |-> o.bids, asks |-> o.asks],
     left |-> [cur_sequence |-> g.cur_sequence, ts_ms |-> g.ts_ms,
               bids |-> g.bids, asks |-> g.asks]]

\* Mutant: a snapshot is applied without clearing the ladders.
apply_order_merges_snapshot(f, o) ==
    LET g == [f EXCEPT
                !.cur_sequence = o.id,
                !.ts_ms = o.ts_ms,
                !.asks = apply_levels(f.asks, o.asks),
                !.bids = apply_levels(f.bids, o.bids)]
    IN  [g EXCEPT
            !.applied = Append(f.applied, Applied(f, o, g)),
            !.chain = Chain(f, o)]

apply_order(f, o) ==
    LET g == [f EXCEPT
                !.cur_sequence = o.id,
                !.ts_ms = o.ts_ms,
                !.asks = apply_levels(IF o.is_snapshot THEN EmptyLadder ELSE f.asks,
                                      o.asks),
                !.bids = apply_levels(IF o.is_snapshot THEN EmptyLadder ELSE f.bids,
                                      o.bids)]
    IN  [g EXCEPT
            !.applied = Append(f.applied, Applied(f, o, g)),
            !.chain = Chain(f, o)]

\* A method's result: the FSM after it and the BookAction it returns.
Ret(f, a) == [fsm |-> f, action |-> a]

\* Mutant: reset forgets to clear the buffer.
reset_keeps_buffer(f) ==
    Ret([f EXCEPT !.state = "WaitingForSnapshot"], "RetrieveSnapshot")

\* Mutant: reset clears the book as well.
reset_clears_book(f) ==
    Ret([f EXCEPT !.state = "WaitingForSnapshot", !.buffer = <<>>,
                  !.dropped = Len(f.buffer),
                  !.asks = EmptyLadder, !.bids = EmptyLadder,
                  !.cur_sequence = 0, !.ts_ms = 0],
        "RetrieveSnapshot")

reset(f) ==
    Ret([f EXCEPT !.state = "WaitingForSnapshot", !.buffer = <<>>,
                  !.dropped = Len(f.buffer)],
        "RetrieveSnapshot")

RECURSIVE process_order(_, _), drain_buffer(_)

\* What the history records of a dispatched order: the state and cur_sequence it met.
Fed(f, o) == [o |-> o, st |-> f.state, cur |-> f.cur_sequence]

\* Mutant: Init buffers the order that asked for the snapshot.
on_init_buffers(f, o) ==
    Ret([f EXCEPT !.state = "WaitingForSnapshot", !.buffer = Append(f.buffer, o)],
        "RetrieveSnapshot")

\* Mutant: Init asks for the snapshot and stays Init.
on_init_stays_init(f, o) ==
    Ret(f, "RetrieveSnapshot")

on_init(f, o) ==
    Ret([f EXCEPT !.state = "WaitingForSnapshot"], "RetrieveSnapshot")

\* Mutant: whatever comes in WaitingForSnapshot is buffered, a snapshot too.
on_waiting_buffers_all(f, o) ==
    Ret([f EXCEPT !.buffer = Append(f.buffer, o)], "Ok")

\* Mutant: an incremental is buffered at the head.
on_waiting_pushes_front(f, o) ==
    IF o.is_snapshot
    THEN drain_buffer([apply_order(f, o) EXCEPT !.state = "Synchronizing"])
    ELSE Ret([f EXCEPT !.buffer = <<o>> \o f.buffer], "Ok")

on_waiting_for_snapshot(f, o) ==
    IF o.is_snapshot
    THEN drain_buffer([apply_order(f, o) EXCEPT !.state = "Synchronizing"])
    ELSE Ret([f EXCEPT !.buffer = Append(f.buffer, o)], "Ok")

\* Mutant: the first event is applied but cur_sequence is left at the snapshot's.
on_synchronizing_keeps_sequence(f, o) ==
    IF is_first_event(f, o)
    THEN Ret([apply_order(f, o) EXCEPT !.state = "Processing",
                                       !.cur_sequence = f.cur_sequence], "Ok")
    ELSE IF is_stale(f, o) THEN reset(f) ELSE Ret(f, "Ok")

\* Mutant: a snapshot met in Synchronizing is not looked at; the FSM resets.
on_synchronizing_resets_on_snapshot(f, o) ==
    IF o.is_snapshot THEN reset(f)
    ELSE IF is_first_event(f, o)
         THEN Ret([apply_order(f, o) EXCEPT !.state = "Processing"], "Ok")
         ELSE IF is_stale(f, o) THEN reset(f) ELSE Ret(f, "Ok")

\* Mutant: is_stale is asked before is_first_event.
on_synchronizing_stale_first(f, o) ==
    IF is_stale(f, o) THEN reset(f)
    ELSE IF is_first_event(f, o)
         THEN Ret([apply_order(f, o) EXCEPT !.state = "Processing"], "Ok")
         ELSE Ret(f, "Ok")

\* Mutant: whatever is not the first event is dropped, stale or not.
on_synchronizing_never_resets(f, o) ==
    IF is_first_event(f, o)
    THEN Ret([apply_order(f, o) EXCEPT !.state = "Processing"], "Ok")
    ELSE Ret(f, "Ok")

on_synchronizing(f, o) ==
    IF is_first_event(f, o)
    THEN Ret([apply_order(f, o) EXCEPT !.state = "Processing"], "Ok")
    ELSE IF is_stale(f, o) THEN reset(f) ELSE Ret(f, "Ok")

\* Mutant: Processing applies whatever comes.
on_processing_applies_any(f, o) ==
    Ret(apply_order(f, o), "Ok")

\* Mutant: Processing applies the order before it looks for the gap.
on_processing_applies_then_resets(f, o) ==
    IF is_next(f, o) THEN Ret(apply_order(f, o), "Ok") ELSE reset(apply_order(f, o))

\* Mutant: on a gap the update that showed it is kept for the replay.
on_processing_buffers_gap(f, o) ==
    IF is_next(f, o) THEN Ret(apply_order(f, o), "Ok")
    ELSE Ret([f EXCEPT !.state = "WaitingForSnapshot", !.buffer = <<o>>,
                       !.dropped = Len(f.buffer)],
             "RetrieveSnapshot")

on_processing(f, o) ==
    IF is_next(f, o) THEN Ret(apply_order(f, o), "Ok") ELSE reset(f)

process_order(f0, o) ==
    LET f == [f0 EXCEPT !.fed = Append(f0.fed, Fed(f0, o))]
    IN  CASE f.state = "Init" -> on_init(f, o)
          [] f.state = "WaitingForSnapshot" -> on_waiting_for_snapshot(f, o)
          [] f.state = "Synchronizing" -> on_synchronizing(f, o)
          [] f.state = "Processing" -> on_processing(f, o)

\* Mutant: the buffer is drained newest first.
drain_buffer_newest_first(f) ==
    IF f.buffer = <<>> THEN Ret(f, "Ok")
    ELSE LET n == Len(f.buffer)
             r == process_order([f EXCEPT !.buffer = SubSeq(f.buffer, 1, n - 1)],
                                f.buffer[n])
         IN  IF r.action # "Ok" THEN r ELSE drain_buffer(r.fsm)

\* Mutant: the drain ends once the first event is found.
drain_buffer_until_first_event(f) ==
    IF f.buffer = <<>> THEN Ret(f, "Ok")
    ELSE LET r == process_order([f EXCEPT !.buffer = Tail(f.buffer)], Head(f.buffer))
         IN  IF r.action # "Ok" \/ r.fsm.state = "Processing" THEN r
             ELSE drain_buffer(r.fsm)

drain_buffer(f) ==
    IF f.buffer = <<>> THEN Ret(f, "Ok")
    ELSE LET r == process_order([f EXCEPT !.buffer = Tail(f.buffer)], Head(f.buffer))
         IN  IF r.action # "Ok" THEN r ELSE drain_buffer(r.fsm)

\* BookFsm::update on the FSM of the state; the histories of the call start empty.
FsmUpdate(o) ==
    LET r == process_order([Fsm EXCEPT !.fed = <<>>, !.applied = <<>>, !.dropped = 0], o)
    IN  /\ state' = r.fsm.state
        /\ asks' = r.fsm.asks
        /\ bids' = r.fsm.bids
        /\ buffer' = r.fsm.buffer
        /\ cur_sequence' = r.fsm.cur_sequence
        /\ ts_ms' = r.fsm.ts_ms
        /\ fed' = r.fsm.fed
        /\ applied' = r.fsm.applied
        /\ dropped' = r.fsm.dropped
        /\ chain' = r.fsm.chain
        /\ action' = r.action
        /\ UNCHANGED sequencer

\* The guard of the model on the growth of the replay buffer.
BufferHasRoom(o) ==
    (state = "WaitingForSnapshot" /\ ~o.is_snapshot) => Len(buffer) < MaxBuf

\* ------------------------------------------------------------------------
\* The keyed lists of the order book: Queue and LinkedList
\* ------------------------------------------------------------------------

\* The keys and the values of the model.
Keys == {"a", "b", "c"}
Values == 1..MaxValue
Kinds == {"Queue", "LinkedList"}

\* Node::new
Node(key, value) == [key |-> key, value |-> value, next |-> None, prev |-> None]

\* slab::Slab: the slots, occupied or vacant, and the slot the next insert
\* takes; slot id is entries[id + 1]. A vacant slot names the slot that was
\* to be taken next when it was vacated.
SlabNew == [entries |-> <<>>, next |-> 0]
Occupied(node) == [node |-> node]
Vacant(next) == [vacant |-> next]
Contains(b, id) == id < Len(b.entries) /\ "node" \in DOMAIN b.entries[id + 1]
Get(b, id) == b.entries[id + 1].node
Put(b, id, node) == [b EXCEPT !.entries[id + 1] = Occupied(node)]
SlabLen(b) == Cardinality({ i \in DOMAIN b.entries : "node" \in DOMAIN b.entries[i] })

\* Slab::insert: the new entry takes slot b.next, the slot vacated last if
\* there is one and a new slot otherwise.
SlabInsert(b, node) ==
    IF b.next = Len(b.entries)
    THEN [entries |-> Append(b.entries, Occupied(node)), next |-> b.next + 1]
    ELSE [entries |-> [b.entries EXCEPT ![b.next + 1] = Occupied(node)],
          next |-> b.entries[b.next + 1].vacant]

\* Slab::remove of an occupied slot.
SlabRemove(b, id) ==
    [entries |-> [b.entries EXCEPT ![id + 1] = Vacant(b.next)], next |-> id]

\* HashMap::remove
Without(keys, key) == [k \in (DOMAIN keys) \ {key} |-> keys[k]]

\* Queue::new, LinkedList::new
new == [keys |-> <<>>, backing |-> SlabNew, head |-> None, tail |-> None]

\* Queue::len, LinkedList::len
len(l) == SlabLen(l.backing)

\* Queue::front, LinkedList::front
front(l) ==
    IF l.head = None THEN None
    ELSE IF ~Contains(l.backing, l.head[1]) THEN None
    ELSE Some(Get(l.backing, l.head[1]).value)

\* Queue::push_back, LinkedList::push_back: the list after the call and what
\* the call returned.
push_back(l, key, value) ==
    IF key \in DOMAIN l.keys
    THEN [list |-> l, ret |-> FALSE]
    ELSE LET id == l.backing.next
             inserted == SlabInsert(l.backing, Node(key, value))
             keys == (key :> id) @@ l.keys
         IN  IF l.tail # None
             THEN LET pid == l.tail[1]
                      prev_tail == [Get(inserted, pid) EXCEPT !.next = Some(id)]
                      linked == Put(inserted, pid, prev_tail)
                      new_tail == [Get(linked, id) EXCEPT !.prev = Some(pid)]
                  IN  [list |-> [keys |-> keys, backing |-> Put(linked, id, new_tail),
                                 head |-> l.head, tail |-> Some(id)],
                       ret |-> TRUE]
             ELSE [list |-> [keys |-> keys, backing |-> inserted,
                             head |-> Some(id), tail |-> Some(id)],
                   ret |-> TRUE]

\* Queue::pop_front, LinkedList::pop_front
pop_front(l) ==
    IF l.head = None THEN [list |-> l, ret |-> None]
    ELSE IF ~Contains(l.backing, l.head[1]) THEN [list |-> l, ret |-> None]
    ELSE LET id == l.head[1]
             head == Get(l.backing, id)
             removed == SlabRemove(l.backing, id)
             keys == Without(l.keys, head.key)
         IN  IF head.next # None
             THEN LET nid == head.next[1]
                      next_head == [Get(removed, nid) EXCEPT !.prev = None]
                  IN  [list |-> [keys |-> keys, backing |-> Put(removed, nid, next_head),
                                 head |-> Some(nid), tail |-> l.tail],
                       ret |-> Some(head.value)]
             ELSE [list |-> [keys |-> keys, backing |-> removed,
                             head |-> None, tail |-> None],
                   ret |-> Some(head.value)]

\* Queue::remove_key
remove_key(l, key) ==
    IF key \notin DOMAIN l.keys
    THEN [list |-> l, ret |-> FALSE]
    ELSE LET id == l.keys[key]
             node == Get(l.backing, id)
             removed == SlabRemove(l.backing, id)
             after_next ==
                 IF node.next # None
                 THEN Put(removed, node.next[1],
                          [Get(removed, node.next[1]) EXCEPT !.prev = node.prev])
                 ELSE removed
             after_prev ==
                 IF node.prev # None
                 THEN Put(after_next, node.prev[1],
                          [Get(after_next, node.prev[1]) EXCEPT !.next = node.next])
                 ELSE after_next
         IN  [list |-> [keys |-> Without(l.keys, key),
                        backing |-> after_prev,
                        head |-> IF node.prev # None THEN l.head ELSE None,
                        tail |-> IF node.next # None THEN l.tail ELSE None],
              ret |-> TRUE]

\* Iter::next from the slot given until None: the (key, value) pairs met.
RECURSIVE IterFrom(_, _)
IterFrom(l, current) ==
    IF current = None THEN <<>>
    ELSE LET node == Get(l.backing, current[1])
         IN  <<(<<node.key, node.value>>)>> \o IterFrom(l, node.next)

\* Queue::iter, LinkedList::iter
iter(l) == IterFrom(l, l.head)

\* No call was made on the list yet.
NoCall == [op |-> "new"]

\* A new list of the kind given.
ListNew(k) ==
    /\ kind = k
    /\ list = new
    /\ ret = NoCall

\* ------------------------------------------------------------------------
\* The FSM alone, driven by any sequence of update() calls
\* ------------------------------------------------------------------------

FsmInit ==
    /\ state = "Init"
    /\ asks = EmptyLadder
    /\ bids = EmptyLadder
    /\ buffer = <<>>
    /\ cur_sequence = 0
    /\ ts_ms = 0
    /\ action = "Ok"
    /\ fed = <<>>
    /\ applied = <<>>
    /\ dropped = 0
    /\ chain = NoChain

\* BookProcessor::new
ProcInit ==
    /\ pc = "recv"
    /\ book_msg_rx = <<>>
    /\ snap_at = None
    /\ pub_at = None
    /\ now = 0
    /\ published = <<>>
    /\ failures = 0
    /\ since_fail = -1
    /\ anchor = None
    /\ reply = None
    /\ sending = None

\* Book::new: the two channels are empty, the Book handle is alive and holds a
\* sender of the mailbox and the receiver of the publication channel; the
\* processor is built with the interval given.
BookNew(interval) ==
    /\ ProcInit
    /\ pub_interval = interval
    /\ book_pub_rx = <<>>
    /\ received = <<>>
    /\ book = TRUE

Init ==
    /\ FsmInit
    /\ BookNew(PubInterval)
    /\ ListNew("Queue")
    /\ writers = 0
    /\ sequencer \in Sequencers

update ==
    /\ \E o \in OrdersOf(sequencer) :
        /\ BufferHasRoom(o)
        /\ FsmUpdate(o)
    /\ UNCHANGED <<proc_vars, list_vars>>

Next == update

Spec == Init /\ [][Next]_vars

\* ------------------------------------------------------------------------
\* BookProcessor
\* ------------------------------------------------------------------------

Min(S) == CHOOSE x \in S : \A y \in S : x <= y
Max(S) == CHOOSE x \in S : \A y \in S : y <= x

\* The first depth entries of a ladder, by ascending or by descending price.
RECURSIVE take_ascending(_, _)
take_ascending(ladder, depth) ==
    IF depth = 0 \/ DOMAIN ladder = {} THEN <<>>
    ELSE LET p == Min(DOMAIN ladder)
         IN  <<<<p, ladder[p]>>>> \o take_ascending(remove(ladder, p), depth - 1)

RECURSIVE take_descending(_, _)

\* Mutant: the bids are keyed by Price, not by Reverse<Price>.
take_descending_ascends(ladder, depth) ==
    take_ascending(ladder, depth)

take_descending(ladder, depth) ==
    IF depth = 0 \/ DOMAIN ladder = {} THEN <<>>
    ELSE LET p == Max(DOMAIN ladder)
         IN  <<<<p, ladder[p]>>>> \o take_descending(remove(ladder, p), depth - 1)

\* BookFsm::snapshot
snapshot(f, depth) ==
    [asks |-> take_ascending(f.asks, depth),
     bids |-> take_descending(f.bids, depth),
     ts_ms |-> f.ts_ms]

\* The price of the first entry of a side of a BookSnapshot, 0 when it is empty:
\* first().map(|(p, _)| p.0).unwrap_or(0).
best(side) == IF side = <<>> THEN 0 ELSE side[1][1]

\* BookSnapshot::mid as a build without overflow checks computes it: the sum
\* of the two u64 prices wraps at the width of u64.
mid(s) ==
    LET best_bid == best(s.bids)
        best_ask == best(s.asks)
    IN  IF best_bid = 0 \/ best_ask = 0 THEN 0
        ELSE ((best_bid + best_ask) % U64) \div 2

\* What a call of mid() can come to: the value returned, or the panic of a
\* build with overflow checks when the sum of the prices does not fit u64.
Returned(v) == <<"returned", v>>
Panicked == <<"panicked", 0>>

mid_outcomes(s) ==
    IF best(s.bids) # 0 /\ best(s.asks) # 0 /\ best(s.bids) + best(s.asks) >= U64
    THEN {Returned(mid(s)), Panicked}
    ELSE {Returned(mid(s))}

\* BookMessage::Update
Update(o) == [kind |-> "Update", order |-> o]

\* BookMessage::RequestSnapshot; its reply channel is the variable reply.
RequestSnapshot == [kind |-> "RequestSnapshot"]

\* The scheduled time of the next publication: get_or_insert leaves pub_at as
\* it is, or stores snap_at (s) in an empty pub_at, and the interval is added.
Base(s) == IF pub_at = None THEN s[1] ELSE pub_at[1]

\* What the history records of a publication: the snapshot, the time that
\* publish read (at), its scheduled time (pub_at) and the snap_at of the time.
Publication(f, s, due) ==
    [snapshot |-> snapshot(f, Depth), at |-> now, pub_at |-> due, snap_at |-> s[1]]

\* Mutant: a full publication channel drops the snapshot (try_send).
send_drops_when_full(rec, base) ==
    IF book /\ Len(book_pub_rx) < MaxPub
    THEN /\ pub_at' = Some(rec.pub_at)
         /\ published' = Append(published, rec)
         /\ book_pub_rx' = Append(book_pub_rx, rec.snapshot)
         /\ pc' = "recv"
         /\ sending' = None
         /\ UNCHANGED received
    ELSE /\ pub_at' = Some(base)
         /\ pc' = "recv"
         /\ sending' = None
         /\ UNCHANGED <<published, book_pub_rx, received>>

\* book_pub_tx.send(snapshot).await and what publish does after it: the send
\* fails when the receiver is gone (the Book handle was dropped) and publish
\* returns; it completes when the channel has room, and pub_at is set to the
\* scheduled time; it is awaited while the channel is full.
send(rec, base) ==
    IF ~book
    THEN /\ pub_at' = Some(base)
         /\ pc' = "recv"
         /\ sending' = None
         /\ UNCHANGED <<published, book_pub_rx, received>>
    ELSE IF Len(book_pub_rx) < MaxPub
         THEN /\ pub_at' = Some(rec.pub_at)
              /\ published' = Append(published, rec)
              /\ book_pub_rx' = Append(book_pub_rx, rec.snapshot)
              /\ pc' = "recv"
              /\ sending' = None
              /\ UNCHANGED received
         ELSE /\ pub_at' = Some(base)
              /\ pc' = "send"
              /\ sending' = Some(rec)
              /\ UNCHANGED <<published, book_pub_rx, received>>

\* Mutant: publish records the time of the send, not the scheduled time.
publish_records_now(f, s) ==
    IF s = None
    THEN /\ pc' = "recv"
         /\ UNCHANGED <<pub_at, published, chan_vars>>
    ELSE IF now < Base(s) + pub_interval
         THEN /\ pub_at' = Some(Base(s))
              /\ pc' = "recv"
              /\ UNCHANGED <<published, chan_vars>>
         ELSE send(Publication(f, s, now), Base(s))

\* Mutant: publish does not return when snap_at is None; it counts from time 0.
publish_without_snap_at(f, s) ==
    LET t == IF s = None THEN Some(0) ELSE s
    IN  IF now < Base(t) + pub_interval
        THEN /\ pub_at' = Some(Base(t))
             /\ pc' = "recv"
             /\ UNCHANGED <<published, chan_vars>>
        ELSE send(Publication(f, t, Base(t) + pub_interval), Base(t))

\* BookProcessor::publish, after an update() that left the FSM as f, with snap_at
\* as s. get_or_insert stores snap_at in an empty pub_at before the due time is
\* looked at.
publish(f, s) ==
    IF s = None
    THEN /\ pc' = "recv"
         /\ UNCHANGED <<pub_at, published, chan_vars>>
    ELSE IF now < Base(s) + pub_interval
         THEN /\ pub_at' = Some(Base(s))
              /\ pc' = "recv"
              /\ UNCHANGED <<published, chan_vars>>
         ELSE send(Publication(f, s, Base(s) + pub_interval), Base(s))

\* The FSM after this step's update() call.
FsmAfter == [asks |-> asks', bids |-> bids', ts_ms |-> ts_ms']

\* BookWriter::update: a producer sends a depth update through its BookWriter;
\* it waits while the mailbox is full.
Send(o) ==
    /\ writers > 0
    /\ Len(book_msg_rx) < MaxMailbox
    /\ book_msg_rx' = Append(book_msg_rx, Update(o))
    /\ UNCHANGED <<list_vars, fsm_vars, call_vars, pc, snap_at, pub_at, now, published,
                   failures, since_fail, anchor, reply, chan_vars, book_vars>>

\* A holder of a sender of the mailbox asks for the book.
SendRequest ==
    /\ book \/ writers > 0
    /\ Len(book_msg_rx) < MaxMailbox
    /\ book_msg_rx' = Append(book_msg_rx, RequestSnapshot)
    /\ UNCHANGED <<list_vars, fsm_vars, call_vars, pc, snap_at, pub_at, now, published,
                   failures, since_fail, anchor, reply, chan_vars, book_vars>>

\* Mutant: the run loop takes a message while on_update awaits the fetcher.
recv_during_fetch == TRUE

\* BookProcessor::run is at book_msg_rx.recv().await: no handler is running.
recv == pc = "recv"

\* BookProcessor::run takes the oldest message, an Update, and on_update runs up
\* to the await of the fetcher, or of the publication channel, or to its end.
Recv ==
    /\ recv
    /\ book_msg_rx # <<>>
    /\ Head(book_msg_rx).kind = "Update"
    /\ BufferHasRoom(Head(book_msg_rx).order)
    /\ book_msg_rx' = Tail(book_msg_rx)
    /\ FsmUpdate(Head(book_msg_rx).order)
    /\ since_fail' = IF since_fail = -1 THEN -1 ELSE IF since_fail < 2 THEN since_fail + 1 ELSE 2
    /\ IF action' = "RetrieveSnapshot"
       THEN /\ snap_at' = None
            /\ pc' = "fetch"
            /\ UNCHANGED <<pub_at, published, chan_vars>>
       ELSE /\ publish(FsmAfter, snap_at)
            /\ UNCHANGED snap_at
    /\ reply' = None
    /\ UNCHANGED <<now, failures, anchor, book_vars, list_vars>>

\* Mutant: a RequestSnapshot is answered only once a snapshot was installed.
request_snapshot_when_synced(ok) ==
    /\ reply' = IF snap_at = None THEN None
                ELSE Some([sent |-> snapshot(Fsm, Depth), ok |-> ok])
    /\ UNCHANGED <<list_vars, fsm_vars, call_vars, pc, snap_at, pub_at, now, published,
                   failures, since_fail, anchor, chan_vars, book_vars>>

\* The RequestSnapshot arm of BookProcessor::run: tx.send(snapshot(depth)), its
\* result dropped. The send fails (ok is FALSE) when the requester has dropped
\* the receiver of the reply channel.
request_snapshot(ok) ==
    /\ reply' = Some([sent |-> snapshot(Fsm, Depth), ok |-> ok])
    /\ UNCHANGED <<list_vars, fsm_vars, call_vars, pc, snap_at, pub_at, now, published,
                   failures, since_fail, anchor, chan_vars, book_vars>>

\* BookProcessor::run takes the oldest message, a RequestSnapshot, and sends
\* snapshot(depth) on its reply channel.
RecvRequest ==
    /\ recv
    /\ book_msg_rx # <<>>
    /\ Head(book_msg_rx).kind = "RequestSnapshot"
    /\ book_msg_rx' = Tail(book_msg_rx)
    /\ \E ok \in BOOLEAN : request_snapshot(ok)

\* fetch_snapshot returns Ok(s): on_update takes s as its order, sets snap_at and
\* runs its loop again, up to the next await or to its end.
FetchOk(s) ==
    /\ pc = "fetch"
    /\ FsmUpdate(s)
    /\ since_fail' = -1
    /\ IF action' = "RetrieveSnapshot"
       THEN /\ snap_at' = None
            /\ pc' = "fetch"
            /\ UNCHANGED <<pub_at, published, chan_vars>>
       ELSE /\ snap_at' = Some(now)
            /\ publish(FsmAfter, Some(now))
    /\ anchor' = IF anchor = None THEN snap_at' ELSE anchor
    /\ reply' = None
    /\ UNCHANGED <<book_msg_rx, now, failures, book_vars, list_vars>>

\* fetch_snapshot returns Err: on_update logs it and returns.
FetchErr ==
    /\ pc = "fetch"
    /\ failures < MaxFail
    /\ failures' = failures + 1
    /\ since_fail' = 0
    /\ pc' = "recv"
    /\ UNCHANGED <<list_vars, fsm_vars, call_vars, book_msg_rx, snap_at, pub_at, now, published,
                   anchor, reply, chan_vars, book_vars>>

\* The send that publish awaits ends: the channel has room, or the receiver is
\* gone; publish and on_update return.
PublishSend ==
    /\ pc = "send"
    /\ ~book \/ Len(book_pub_rx) < MaxPub
    /\ send(sending[1], pub_at[1])
    /\ UNCHANGED <<list_vars, fsm_vars, call_vars, book_msg_rx, snap_at, now, failures,
                   since_fail, anchor, reply, book_vars>>

\* book_msg_rx.recv() returns None, and run returns: the mailbox is empty and
\* every sender of it is dropped, the BookWriters and the one the Book holds.
RunEnd ==
    /\ recv
    /\ book_msg_rx = <<>>
    /\ writers = 0
    /\ ~book
    /\ pc' = "done"
    /\ UNCHANGED <<list_vars, fsm_vars, call_vars, book_msg_rx, snap_at, pub_at, now, published,
                   failures, since_fail, anchor, reply, chan_vars, book_vars>>

\* Book::recv: the consumer takes the oldest published snapshot.
BookRecv ==
    /\ book
    /\ book_pub_rx # <<>>
    /\ received' = Append(received, Head(book_pub_rx))
    /\ book_pub_rx' = Tail(book_pub_rx)
    /\ UNCHANGED <<list_vars, fsm_vars, call_vars, pc, book_msg_rx, snap_at, pub_at, now,
                   published, failures, since_fail, anchor, reply, sending, book_vars>>

\* Book::writer: a BookWriter is made, with a clone of the Book's sender.
Writer ==
    /\ book
    /\ writers < MaxWriters
    /\ writers' = writers + 1
    /\ UNCHANGED <<list_vars, fsm_vars, call_vars, pc, book_msg_rx, snap_at, pub_at, now,
                   published, failures, since_fail, anchor, reply, chan_vars,
                   pub_interval, book>>

\* A BookWriter is dropped.
DropWriter ==
    /\ writers > 0
    /\ writers' = writers - 1
    /\ UNCHANGED <<list_vars, fsm_vars, call_vars, pc, book_msg_rx, snap_at, pub_at, now,
                   published, failures, since_fail, anchor, reply, chan_vars,
                   pub_interval, book>>

\* The Book handle is dropped: its sender of the mailbox, and the receiver of
\* the publication channel with the snapshots still in it.
DropBook ==
    /\ book
    /\ book' = FALSE
    /\ book_pub_rx' = <<>>
    /\ UNCHANGED <<list_vars, fsm_vars, call_vars, pc, book_msg_rx, snap_at, pub_at, now,
                   published, failures, since_fail, anchor, reply, sending, received,
                   pub_interval, writers>>

\* Time passes.
Tick ==
    /\ now < MaxTime
    /\ now' = now + 1
    /\ UNCHANGED <<list_vars, fsm_vars, call_vars, pc, book_msg_rx, snap_at, pub_at, published,
                   failures, since_fail, anchor, reply, chan_vars, book_vars>>

\* Book::new_um: the processor is built with the reference sequencer; its
\* producers send the adapter's depth updates through a BookWriter, its fetcher
\* returns snapshots.
InitProc ==
    /\ FsmInit
    /\ ListNew("Queue")
    /\ BookNew(PubInterval)
    /\ writers = 1
    /\ sequencer = "Binance"

SendUpdate == \E o \in Incrementals : Send(o)

FetchSnapshot == \E s \in Snapshots : FetchOk(s)

\* The processor with its handles held and its consumer not receiving: the
\* publications of the model's time are fewer than the channel holds.
NextProc ==
    \/ SendUpdate
    \/ SendRequest
    \/ Recv
    \/ RecvRequest
    \/ FetchSnapshot
    \/ FetchErr
    \/ Tick

SpecProc == InitProc /\ [][NextProc]_vars

\* The scheduling of the processor: the producers of updates keep sending and
\* the mailbox serves its senders in turn, so that an update is sent whenever the
\* mailbox has room again and again; the run loop takes a message when there is
\* one, and a fetch that is awaited returns; once the fetcher has failed MaxFail
\* times it returns Ok.
SpecProcFair ==
    /\ SpecProc
    /\ SF_vars(SendUpdate)
    /\ WF_vars(Recv \/ RecvRequest)
    /\ WF_vars(FetchSnapshot \/ FetchErr)

\* The Book with its handles and its consumer: writers are made and dropped,
\* the Book is dropped, the consumer receives; the processor publishes at every
\* tick of the clock. The venue sends a depth update for each id, in sequence or
\* not; the fetcher does not fail and returns the book at id 1.
BookUpdates ==
    { o \in Incrementals :
        /\ o.o.first_update_id = o.o.last_update_id
        /\ o.o.previous_update_id + 1 = o.o.first_update_id }

BookSnapshots == { s \in Snapshots : s.id = 1 }

WriterUpdate == \E o \in BookUpdates : Send(o)

FetchBook == \E s \in BookSnapshots : FetchOk(s)

InitBook ==
    /\ FsmInit
    /\ ListNew("Queue")
    /\ BookNew(1)
    /\ writers = 0
    /\ sequencer = "Binance"

NextBook ==
    \/ Writer
    \/ DropWriter
    \/ DropBook
    \/ WriterUpdate
    \/ Recv
    \/ FetchBook
    \/ PublishSend
    \/ BookRecv
    \/ RunEnd
    \/ Tick

SpecBook == InitBook /\ [][NextBook]_vars

\* The scheduling of the processor's task: it takes a message when there is
\* one, an awaited fetch returns, an awaited send ends when it can, and run
\* returns when the mailbox is closed and empty.
SpecBookFair ==
    /\ SpecBook
    /\ WF_vars(Recv)
    /\ WF_vars(FetchBook)
    /\ WF_vars(PublishSend)
    /\ WF_vars(RunEnd)

\* ------------------------------------------------------------------------
\* A keyed list alone, driven by any sequence of calls
\* ------------------------------------------------------------------------

PushBack ==
    /\ \E key \in Keys, value \in Values :
        LET r == push_back(list, key, value)
        IN  /\ list' = r.list
            /\ ret' = [op |-> "push_back", key |-> key, value |-> value, out |-> r.ret]
    /\ UNCHANGED <<kind, fsm_vars, call_vars, proc_vars>>

PopFront ==
    /\ LET r == pop_front(list)
       IN  /\ list' = r.list
           /\ ret' = [op |-> "pop_front", out |-> r.ret]
    /\ UNCHANGED <<kind, fsm_vars, call_vars, proc_vars>>

Front ==
    /\ ret' = [op |-> "front", out |-> front(list)]
    /\ UNCHANGED <<kind, list, fsm_vars, call_vars, proc_vars>>

\* Only the Queue has remove_key.
RemoveKey ==
    /\ kind = "Queue"
    /\ \E key \in Keys :
        LET r == remove_key(list, key)
        IN  /\ list' = r.list
            /\ ret' = [op |-> "remove_key", key |-> key, out |-> r.ret]
    /\ UNCHANGED <<kind, fsm_vars, call_vars, proc_vars>>

InitList ==
    /\ FsmInit
    /\ BookNew(PubInterval)
    /\ writers = 0
    /\ sequencer = "Binance"
    /\ \E k \in Kinds : ListNew(k)

NextList ==
    \/ PushBack
    \/ PopFront
    \/ Front
    \/ RemoveKey

SpecList == InitList /\ [][NextList]_vars

\* ------------------------------------------------------------------------
\* The FSM fed with snapshots whose prices are any u64
\* ------------------------------------------------------------------------

\* Snapshots of one level a side, the two prices any u64.
WideSnapshots ==
    { SnapshotOrder(0, <<PriceSize(b, 1)>>, <<PriceSize(a, 1)>>, 1) :
        b \in 0..(U64 - 1), a \in 0..(U64 - 1) }

updateWide ==
    /\ \E o \in WideSnapshots : FsmUpdate(o)
    /\ UNCHANGED <<proc_vars, list_vars>>

InitWide ==
    /\ FsmInit
    /\ BookNew(PubInterval)
    /\ ListNew("Queue")
    /\ writers = 0
    /\ sequencer = "Binance"

NextWide == updateWide

SpecWide == InitWide /\ [][NextWide]_vars

\* ------------------------------------------------------------------------
\* The processor with one writer and a consumer that keeps its Book handle
\* ------------------------------------------------------------------------

InitLoop ==
    /\ FsmInit
    /\ ListNew("Queue")
    /\ BookNew(1)
    /\ writers = 1
    /\ sequencer = "Binance"

NextLoop ==
    \/ WriterUpdate
    \/ Recv
    \/ FetchBook
    \/ PublishSend
    \/ BookRecv
    \/ Tick

SpecLoop == InitLoop /\ [][NextLoop]_vars

\* The scheduling of the processor's task, every awaited fetch returning; the
\* consumer receives when it pleases.
SpecLoopFair ==
    /\ SpecLoop
    /\ WF_vars(Recv)
    /\ WF_vars(FetchBook)
    /\ WF_vars(PublishSend)

\* ------------------------------------------------------------------------
\* What the claims speak of
\* ------------------------------------------------------------------------

\* The order the last update() call was given, and the state that call met.
order == fed[1].o
from == fed[1].st

\* The ladder that applying a list of levels to a ladder must give: a price the
\* list names ends at the size of its last entry, or absent when that size is
\* zero; any other price keeps its size.
Named(levels) == { price(levels[i]) : i \in DOMAIN levels }

LastSize(levels, p) ==
    LET i == CHOOSE j \in DOMAIN levels :
                /\ price(levels[j]) = p
                /\ \A k \in DOMAIN levels : price(levels[k]) = p => k <= j
    IN  size(levels[i])

Effect(ladder, levels) ==
    LET keys == { p \in (DOMAIN ladder) \cup Named(levels) :
                    p \in Named(levels) => LastSize(levels, p) # 0 }
    IN  [p \in keys |-> IF p \in Named(levels) THEN LastSize(levels, p) ELSE ladder[p]]

\* This step applied order o, and nothing else, to the FSM.
AppliedAlone(o) ==
    /\ Len(applied') = 1
    /\ applied'[1].id = o.id /\ applied'[1].o = o.o
    /\ applied'[1].is_snapshot = o.is_snapshot
    /\ cur_sequence' = o.id
    /\ ts_ms' = o.ts_ms
    /\ bids' = Effect(IF o.is_snapshot THEN EmptyLadder ELSE bids, o.bids)
    /\ asks' = Effect(IF o.is_snapshot THEN EmptyLadder ELSE asks, o.asks)

\* This step applied nothing: ladders, cur_sequence and ts_ms are as before.
AppliedNothing ==
    /\ applied' = <<>>
    /\ UNCHANGED <<bids, asks, cur_sequence, ts_ms, chain>>

\* This step is a reset: WaitingForSnapshot, an empty buffer, RetrieveSnapshot.
IsReset ==
    /\ state' = "WaitingForSnapshot"
    /\ buffer' = <<>>
    /\ action' = "RetrieveSnapshot"

\* A dispatched order that makes process_order return RetrieveSnapshot.
Yields(e) ==
    LET f == [cur_sequence |-> e.cur, sequencer |-> sequencer]
    IN  \/ e.st = "Init"
        \/ e.st = "Synchronizing" /\ ~is_first_event(f, e.o) /\ is_stale(f, e.o)
        \/ e.st = "Processing" /\ ~is_next(f, e.o)

\* ------------------------------------------------------------------------
\* C1
\* ------------------------------------------------------------------------

\* An incremental is applied only in Synchronizing as the first event or in
\* Processing as the next event.
AppliedWhenSequenced(e) ==
    LET f == [cur_sequence |-> e.cur, sequencer |-> sequencer]
    IN  \/ e.st = "Synchronizing" /\ is_first_event(f, e)
        \/ e.st = "Processing" /\ is_next(f, e)

\* C1 as claimed: an incremental is applied only in Synchronizing as the first
\* event or in Processing as the next event, and with the reference sequencer the
\* incrementals applied since the last applied snapshot form a chain: the first
\* has first_id <= snapshot id <= last_id, every later one has previous_id equal to
\* the id of the order applied just before it.
C1_GapFreeChain ==
    \A i \in DOMAIN applied :
        LET e == applied[i]
        IN  ~e.is_snapshot =>
                /\ AppliedWhenSequenced(e)
                /\ sequencer = "Binance" =>
                    /\ e.run.snap
                    /\ e.run.n = 1 =>
                        /\ e.o.first_update_id <= e.run.snap_id
                        /\ e.run.snap_id <= e.o.last_update_id
                    /\ e.run.n = 2 => e.o.previous_update_id = e.after

\* C1 amended: as claimed, but the first incremental after a snapshot bridges the
\* snapshot id only when the snapshot was applied in WaitingForSnapshot; after a
\* snapshot that was itself applied in Synchronizing or Processing (as a first or
\* next event) the first incremental has previous_id equal to the snapshot id.
C1_GapFreeChainAmended ==
    \A i \in DOMAIN applied :
        LET e == applied[i]
        IN  ~e.is_snapshot =>
                /\ AppliedWhenSequenced(e)
                /\ sequencer = "Binance" =>
                    /\ e.run.snap
                    /\ e.after = e.cur
                    /\ (e.run.n = 1 /\ e.run.snap_st = "WaitingForSnapshot") =>
                        /\ e.o.first_update_id <= e.run.snap_id
                        /\ e.run.snap_id <= e.o.last_update_id
                    /\ (e.run.n = 1 /\ e.run.snap_st # "WaitingForSnapshot") =>
                        e.o.previous_update_id = e.run.snap_id
                    /\ e.run.n = 2 => e.o.previous_update_id = e.after

\* A snapshot applied in WaitingForSnapshot, its first event and a next event.
C1_Witness ==
    /\ sequencer = "Binance"
    /\ state = "Processing"
    /\ chain.n = 2 /\ chain.snap_st = "WaitingForSnapshot"
    /\ Len(applied) = 1 /\ ~applied[1].is_snapshot

\* ------------------------------------------------------------------------
\* C2 .. C8: the transitions of update(), one state at a time. Every step of
\* Spec is one update() call; order' is the order it was given.
\* ------------------------------------------------------------------------

\* C2: in Processing, update(u) applies u, stays in Processing and returns Ok when
\* is_next(cur_sequence, u); otherwise it resets (RetrieveSnapshot,
\* WaitingForSnapshot, empty buffer) and u is neither applied nor buffered.
C2_Processing ==
    [][state = "Processing" =>
        IF is_next(Fsm, order')
        THEN /\ AppliedAlone(order')
             /\ state' = "Processing"
             /\ action' = "Ok"
             /\ buffer' = buffer
        ELSE /\ IsReset
             /\ AppliedNothing]_vars

\* A gap met in Processing, with a book that applying would have changed.
C2_Witness ==
    /\ fed # <<>>
    /\ from = "Processing"
    /\ action = "RetrieveSnapshot"
    /\ state = "WaitingForSnapshot"
    /\ asks # Effect(asks, order.asks)

\* C3: in WaitingForSnapshot, update(s) with a snapshot s applies s, moves to
\* Synchronizing and dispatches the buffered orders in the order they were
\* buffered; when it returns Ok all of them were dispatched, the buffer is empty
\* and the state is Synchronizing or Processing, Processing exactly when some
\* buffered order was the first event of s and each later one the next of the one
\* before it.
C3_SnapshotThenDrain ==
    [][(state = "WaitingForSnapshot" /\ order'.is_snapshot) =>
        /\ Len(applied') >= 1
        /\ applied'[1].is_snapshot /\ applied'[1].id = order'.id
        /\ applied'[1].st = "WaitingForSnapshot"
        /\ Len(fed') - 1 <= Len(buffer)
        /\ \A i \in 1..(Len(fed') - 1) : fed'[i + 1].o = buffer[i]
        /\ Len(fed') > 1 => fed'[2].st = "Synchronizing" /\ fed'[2].cur = order'.id
        /\ buffer = <<>> =>
            /\ state' = "Synchronizing"
            /\ AppliedAlone(order')
        /\ action' = "Ok" =>
            /\ Len(fed') - 1 = Len(buffer)
            /\ buffer' = <<>>
            /\ state' \in {"Synchronizing", "Processing"}
            /\ state' = "Processing" <=>
                \E i \in DOMAIN buffer :
                    /\ is_first_event([Fsm EXCEPT !.cur_sequence = order'.id], buffer[i])
                    /\ \A j \in (i + 1)..Len(buffer) :
                         is_next([Fsm EXCEPT !.cur_sequence = buffer[j - 1].id], buffer[j])
       ]_vars

\* A snapshot that drained two buffered orders, the first event and its next.
C3_Witness ==
    /\ fed # <<>>
    /\ from = "WaitingForSnapshot"
    /\ order.is_snapshot
    /\ action = "Ok"
    /\ state = "Processing"
    /\ Len(fed) = 3
    /\ Len(applied) = 3
    /\ fed[2].o # fed[3].o

\* C4: the drain stops at the first buffered order that yields RetrieveSnapshot;
\* update() then returns RetrieveSnapshot in WaitingForSnapshot with an empty
\* buffer, and neither that order nor any buffered after it is applied. If no
\* buffered order yields RetrieveSnapshot, update() returns Ok.
C4_DrainStopsAtReset ==
    [][(state = "WaitingForSnapshot" /\ order'.is_snapshot) =>
        /\ \A i \in 2..(Len(fed') - 1) : ~Yields(fed'[i])
        /\ action' = "RetrieveSnapshot" <=> (Len(fed') >= 2 /\ Yields(fed'[Len(fed')]))
        /\ action' = "RetrieveSnapshot" =>
            /\ state' = "WaitingForSnapshot"
            /\ buffer' = <<>>
            /\ dropped' = Len(buffer) - (Len(fed') - 1)
            /\ Len(applied') <= Len(fed') - 1
            /\ cur_sequence' = applied'[Len(applied')].id
        /\ action' # "RetrieveSnapshot" =>
            /\ action' = "Ok"
            /\ Len(fed') - 1 = Len(buffer)
       ]_vars

\* A drain that the first of two buffered orders stopped: the second is cleared.
C4_Witness ==
    /\ fed # <<>>
    /\ from = "WaitingForSnapshot"
    /\ order.is_snapshot
    /\ action = "RetrieveSnapshot"
    /\ Len(fed) = 2
    /\ dropped = 1
    /\ buffer = <<>>

\* C5: in Synchronizing, update(u) with is_first_event(cur_sequence, u) applies u,
\* moves to Processing and returns Ok, whatever is_stale says of u.
C5_FirstEvent ==
    [][(state = "Synchronizing" /\ is_first_event(Fsm, order')) =>
        /\ AppliedAlone(order')
        /\ state' = "Processing"
        /\ action' = "Ok"
        /\ buffer' = buffer]_vars

\* A first event that is also stale, applied.
C5_Witness ==
    /\ fed # <<>>
    /\ from = "Synchronizing"
    /\ is_first_event([cur_sequence |-> fed[1].cur, sequencer |-> sequencer], order)
    /\ is_stale([cur_sequence |-> fed[1].cur, sequencer |-> sequencer], order)
    /\ state = "Processing"
    /\ cur_sequence = order.id
    /\ Len(applied) = 1

\* C6: in Synchronizing, an update u that is not the first event resets the FSM
\* and returns RetrieveSnapshot if is_stale(cur_sequence, u), and is otherwise
\* dropped with Ok in Synchronizing; u is not applied in either case. In the
\* test's terms: snap id 11 with inc(5,7,10) buffered ends in Synchronizing, and
\* inc(10,13,14) then returns RetrieveSnapshot.
C6_NotFirstEvent ==
    [][/\ (state = "Synchronizing" /\ ~is_first_event(Fsm, order')) =>
            /\ AppliedNothing
            /\ IF is_stale(Fsm, order')
               THEN IsReset
               ELSE /\ state' = "Synchronizing"
                    /\ action' = "Ok"
                    /\ buffer' = buffer
       /\ (/\ sequencer = "Test"
           /\ state = "WaitingForSnapshot"
           /\ buffer = <<inc(5, 7, 10)>>
           /\ order' = snap(0, 0, 11)) =>
            state' = "Synchronizing" /\ action' = "Ok" /\ buffer' = <<>>
       /\ (/\ sequencer = "Test"
           /\ state = "Synchronizing"
           /\ cur_sequence = 11
           /\ order' = inc(10, 13, 14)) =>
            action' = "RetrieveSnapshot"
      ]_vars

\* The test's last step: inc(10,13,14) met in Synchronizing at 11.
C6_Witness ==
    /\ sequencer = "Test"
    /\ fed # <<>>
    /\ from = "Synchronizing"
    /\ fed[1].cur = 11
    /\ order = inc(10, 13, 14)
    /\ action = "RetrieveSnapshot"
    /\ state = "WaitingForSnapshot"
    /\ cur_sequence = 11

\* C7: in Init, update(u) returns RetrieveSnapshot and moves to
\* WaitingForSnapshot for a snapshot and for an incremental alike; u is neither
\* applied nor buffered.
C7_Init ==
    [][state = "Init" =>
        /\ action' = "RetrieveSnapshot"
        /\ state' = "WaitingForSnapshot"
        /\ AppliedNothing
        /\ buffer = <<>>
        /\ buffer' = <<>>]_vars

\* The first update() call, given an incremental that carries price levels.
C7_Witness ==
    /\ fed # <<>>
    /\ from = "Init"
    /\ ~order.is_snapshot
    /\ order.bids # <<>>
    /\ state = "WaitingForSnapshot"
    /\ action = "RetrieveSnapshot"

\* C8: in WaitingForSnapshot, update(u) with an incremental u appends u at the
\* tail of the buffer, returns Ok and stays in WaitingForSnapshot; nothing is
\* applied.
C8_Buffering ==
    [][(state = "WaitingForSnapshot" /\ ~order'.is_snapshot) =>
        /\ buffer' = Append(buffer, order')
        /\ Len(buffer') = Len(buffer) + 1
        /\ action' = "Ok"
        /\ state' = "WaitingForSnapshot"
        /\ AppliedNothing]_vars

\* A second, different incremental buffered behind the first.
C8_Witness ==
    /\ fed # <<>>
    /\ from = "WaitingForSnapshot"
    /\ ~order.is_snapshot
    /\ state = "WaitingForSnapshot"
    /\ Len(buffer) = 2
    /\ buffer[2] = order
    /\ buffer[1] # order

\* ------------------------------------------------------------------------
\* C9, C10: the processor after a failed fetch
\* ------------------------------------------------------------------------

\* C9 as claimed: when fetch_snapshot fails the handler returns without
\* publishing, and handling the next inbound update makes the FSM return
\* RetrieveSnapshot, so that fetch_snapshot is called again.
C9_NextUpdateRefetches ==
    [][/\ (pc = "fetch" /\ failures' = failures + 1) =>
            /\ pc' = "recv"
            /\ published' = published
       /\ (since_fail = 0 /\ since_fail' = 1) =>
            /\ action' = "RetrieveSnapshot"
            /\ pc' = "fetch"
      ]_vars

FailedFetchIsFinal ==
    [][since_fail >= 0 =>
        /\ since_fail' >= 0
        /\ pc' = "recv"
        /\ snap_at' = None
        /\ state' = "WaitingForSnapshot"
        /\ published' = published]_vars

\* ------------------------------------------------------------------------
\* C11 .. C15: the processor's handlers and its publications
\* ------------------------------------------------------------------------

\* This step ran on_update to its call of publish: the handler of an Update
\* whose update() returned Ok, or the rest of a handler whose fetch returned Ok.
Handled ==
    /\ pc' = "recv"
    /\ \/ pc = "fetch" /\ failures' = failures
       \/ /\ pc = "recv"
          /\ book_msg_rx # <<>>
          /\ Head(book_msg_rx).kind = "Update"
          /\ book_msg_rx' = Tail(book_msg_rx)

\* C11: from the update() that returned RetrieveSnapshot to the update() of the
\* fetched snapshot no message is taken from the mailbox and none is handled:
\* while the fetch is awaited the mailbox only grows at its tail, no reply is
\* sent, the FSM is given nothing but the fetched snapshot, which it meets in the
\* state the RetrieveSnapshot left, and a fetch that returned Ok has fed it.
C11_SnapshotBeforeMailbox ==
    [][pc = "fetch" =>
        /\ action = "RetrieveSnapshot"
        /\ Len(book_msg_rx') >= Len(book_msg_rx)
        /\ SubSeq(book_msg_rx', 1, Len(book_msg_rx)) = book_msg_rx
        /\ reply' = None
        /\ <<fsm_vars, call_vars>>' # <<fsm_vars, call_vars>> =>
            /\ failures' = failures
            /\ order' \in Snapshots
            /\ from' = state
            /\ fed'[1].cur = cur_sequence
        /\ (pc' = "recv" /\ failures' = failures) =>
            /\ order' \in Snapshots
            /\ from' = state
            /\ snap_at' = Some(now)
       ]_vars

\* A fetched snapshot was fed while a message sent during the fetch waits in the
\* mailbox, which was empty when the fetch began.
C11_Witness ==
    /\ pc = "recv"
    /\ fed # <<>>
    /\ order \in Snapshots
    /\ from = "WaitingForSnapshot"
    /\ snap_at = Some(now)
    /\ Len(book_msg_rx) = MaxMailbox
    /\ failures = 0
    /\ anchor # None /\ anchor # snap_at

\* C12: a BookSnapshot is sent only with snap_at set, and snap_at is set only
\* from the install of a fetched snapshot to the next RetrieveSnapshot: so the FSM
\* is in Synchronizing or Processing at every send, and nothing is sent by a step
\* that leaves it in Init or WaitingForSnapshot, or after a failed fetch.
C12_PublishedOnlyWithSnapAt ==
    [][/\ published' # published =>
            /\ snap_at' # None
            /\ state' \in {"Synchronizing", "Processing"}
            /\ published'[Len(published')].snap_at = snap_at'[1]
            /\ Handled
       /\ snap_at' # None =>
            /\ state' \in {"Synchronizing", "Processing"}
            /\ chain'.snap
            /\ pc' = "recv"
            /\ since_fail' = -1
       /\ state' \in {"Init", "WaitingForSnapshot"} => published' = published
       /\ (since_fail >= 0 \/ since_fail' >= 0) => published' = published
      ]_vars

\* A publication was made a whole interval late, so that another has been due
\* ever since; then a resync failed and an update was handled: none was made.
C12_Witness ==
    /\ Len(published) = 1
    /\ pub_at # None
    /\ published[1].at >= pub_at[1] + PubInterval
    /\ since_fail >= 1
    /\ snap_at = None
    /\ state = "WaitingForSnapshot"
    /\ buffer # <<>>

\* C13 as claimed: every publication is made at or after the pub_at recorded
\* for it, and that pub_at is snap_at + k * pub_interval for some k >= 1, where
\* snap_at is the time the last snapshot before the publication was installed.
C13_GridOfSnapAt ==
    \A i \in DOMAIN published :
        /\ published[i].at >= published[i].pub_at
        /\ published[i].pub_at > published[i].snap_at
        /\ (published[i].pub_at - published[i].snap_at) % PubInterval = 0

\* C13 amended: the grid is that of the first snapshot installed, whatever
\* resyncs came later: the i-th publication records anchor + i * pub_interval
\* and is made at or after it; pub_at holds the last recorded value, or the
\* anchor before the first publication. A handler publishes at most once, and
\* with snap_at set it publishes exactly when now has reached pub_at + pub_interval
\* (snap_at + pub_interval the first time): an update before it publishes nothing.
C13_GridOfFirstSnapshot ==
    [][/\ \A i \in DOMAIN published' :
            /\ published'[i].at >= published'[i].pub_at
            /\ published'[i].pub_at = anchor'[1] + i * PubInterval
       /\ pub_at' # None =>
            /\ anchor' # None
            /\ pub_at'[1] = anchor'[1] + Len(published') * PubInterval
       /\ published' # published =>
            /\ Len(published') = Len(published) + 1
            /\ SubSeq(published', 1, Len(published)) = published
            /\ published'[Len(published')].at = now
       /\ (Handled /\ snap_at' # None) =>
            (published' # published <=>
                now >= (IF pub_at = None THEN snap_at'[1] ELSE pub_at[1]) + PubInterval)
      ]_vars

\* A publication made after a resync whose snap_at is off the grid of the first.
C13_Witness ==
    /\ published # <<>>
    /\ anchor # None
    /\ (published[Len(published)].snap_at - anchor[1]) % PubInterval # 0
    /\ published[Len(published)].pub_at = anchor[1] + Len(published) * PubInterval

\* C14 as claimed: any two consecutive publications are at least pub_interval
\* apart in the time they are made.
C14_RateLimited ==
    \A i \in 1..(Len(published) - 1) :
        published[i + 1].at - published[i].at >= PubInterval

\* C15 as claimed: the ts_ms of the published snapshots never decreases.
C15_TsNonDecreasing ==
    \A i \in 1..(Len(published) - 1) :
        published[i].snapshot.ts_ms <= published[i + 1].snapshot.ts_ms

\* ------------------------------------------------------------------------
\* C16 .. C20: invariants of the FSM
\* ------------------------------------------------------------------------

\* No level of a ladder has size zero.
NoZero(ladder) == \A p \in DOMAIN ladder : ladder[p] # ZERO_SIZE

\* C16: neither ladder ever holds a level of size ZERO_SIZE, after an update()
\* call and after each apply_order within it.
C16_NoZeroSize ==
    /\ NoZero(bids)
    /\ NoZero(asks)
    /\ \A i \in DOMAIN applied : NoZero(applied[i].left.bids) /\ NoZero(applied[i].left.asks)

\* An incremental with a bid of size zero at price 1, applied next after the
\* incremental that had set that bid: the level is gone.
C16_Witness ==
    /\ sequencer = "Binance"
    /\ state = "Processing"
    /\ Len(applied) = 1
    /\ ~applied[1].is_snapshot
    /\ applied[1].levels.bids = <<PriceSize(1, ZERO_SIZE)>>
    /\ chain.n = 2
    /\ applied[1].after = 1
    /\ 1 \notin DOMAIN bids

\* The ladder that holds exactly the levels a payload lists.
Listed(ladder, levels) ==
    /\ DOMAIN ladder = Named(levels)
    /\ \A i \in DOMAIN levels : ladder[price(levels[i])] = size(levels[i])

IncrementalIds == { o.id : o \in { x \in OrdersOf(sequencer) : ~x.is_snapshot } }

\* C18 as claimed: in Processing, cur_sequence is the id of the last applied
\* incremental. The claim is granted wherever the history cannot refute it:
\* where the last applied order is a snapshot, cur_sequence is its id, and it
\* is the id of an applied incremental only if some incremental carries that id.
C18_LastIncremental ==
    state = "Processing" =>
        \/ chain.n >= 1 /\ cur_sequence = chain.id
        \/ chain.n = 0 /\ cur_sequence \in IncrementalIds

\* C18 amended: in Processing, cur_sequence is the id of the last applied order;
\* that order is an incremental, or a snapshot that update() was given in
\* Synchronizing or Processing and that passed is_first_event or is_next.
C18_LastApplied ==
    state = "Processing" =>
        /\ cur_sequence = chain.id
        /\ chain.snap
        /\ chain.n = 0 =>
            /\ chain.snap_st \in {"Synchronizing", "Processing"}
            /\ cur_sequence = chain.snap_id
        /\ applied # <<>> => cur_sequence = applied[Len(applied)].id

\* Processing after a snapshot applied in Processing, as the next event.
C18_Witness ==
    /\ state = "Processing"
    /\ chain.n = 0
    /\ chain.snap_st = "Processing"
    /\ Len(applied) = 1
    /\ applied[1].is_snapshot
    /\ cur_sequence = applied[1].id

\* C19: in WaitingForSnapshot every buffered order is an incremental.
C19_BufferHoldsIncrementals ==
    state = "WaitingForSnapshot" =>
        \A i \in DOMAIN buffer : ~buffer[i].is_snapshot

\* A snapshot given in WaitingForSnapshot with two orders buffered, the first
\* dropped and the second stale: the FSM is back in WaitingForSnapshot and the
\* snapshot is not in the buffer.
C19_Witness ==
    /\ state = "WaitingForSnapshot"
    /\ fed # <<>>
    /\ from = "WaitingForSnapshot"
    /\ order.is_snapshot
    /\ Len(fed) = 3
    /\ action = "RetrieveSnapshot"
    /\ buffer = <<>>

\* C20 as claimed: mid() of the snapshot the FSM gives is 0 exactly when a side
\* of the snapshot is empty.
C20_MidZeroIffEmpty ==
    LET s == snapshot(Fsm, Depth)
    IN  mid(s) = 0 <=> (s.bids = <<>> \/ s.asks = <<>>)

\* ------------------------------------------------------------------------
\* C21 .. C23: apply_order and snapshot
\* ------------------------------------------------------------------------

\* This step gives update() the snapshot the call before it was given, and that
\* call applied it and nothing after it.
SameSnapshotAgain ==
    /\ fed # <<>>
    /\ order.is_snapshot
    /\ order' = order
    /\ applied # <<>>
    /\ applied[Len(applied)].is_snapshot

\* C21 as claimed: a snapshot that update() applied in WaitingForSnapshot and is
\* given again at once leaves the FSM as the first call left it: the same state,
\* ladders, cur_sequence and buffer.
C21_Idempotent ==
    [][(SameSnapshotAgain /\ from = "WaitingForSnapshot") =>
        /\ state' = state
        /\ bids' = bids
        /\ asks' = asks
        /\ cur_sequence' = cur_sequence
        /\ buffer' = buffer]_vars

\* C21 amended: the second call leaves the ladders, cur_sequence and ts_ms of
\* the first, but not its state: met in Synchronizing as the first event (as the
\* reference sequencer has it) the snapshot is applied again and the FSM moves
\* to Processing; met in Processing it is applied again if it is the next event
\* and resets the FSM if not; met in WaitingForSnapshot, after a drain that reset
\* at once, it is applied again and the FSM moves to Synchronizing.
C21_SameLadders ==
    [][SameSnapshotAgain =>
        /\ bids' = bids
        /\ asks' = asks
        /\ cur_sequence' = cur_sequence
        /\ ts_ms' = ts_ms
        /\ cur_sequence' = order.id
        /\ state = "WaitingForSnapshot" =>
            /\ AppliedAlone(order')
            /\ state' = "Synchronizing"
            /\ action' = "Ok"
        /\ state = "Synchronizing" =>
            /\ sequencer # "Test" => is_first_event(Fsm, order)
            /\ is_first_event(Fsm, order) =>
                /\ AppliedAlone(order')
                /\ state' = "Processing"
                /\ action' = "Ok"
        /\ state = "Processing" =>
            IF is_next(Fsm, order)
            THEN AppliedAlone(order') /\ state' = "Processing" /\ action' = "Ok"
            ELSE IsReset /\ AppliedNothing
       ]_vars

\* A snapshot that lists levels, met in Synchronizing by an FSM whose last
\* applied order has its id, the snapshot itself: it is applied again and the
\* FSM is in Processing.
C21_Witness ==
    /\ sequencer = "Binance"
    /\ fed # <<>>
    /\ from = "Synchronizing"
    /\ order.is_snapshot
    /\ order.bids # <<>>
    /\ fed[1].cur = order.id
    /\ Len(applied) = 1
    /\ applied[1].after = order.id
    /\ applied[1].run.snap_st = "Synchronizing"
    /\ state = "Processing"
    /\ Listed(bids, order.bids)

\* C22: apply_order of an incremental u sets cur_sequence to u.id and ts_ms to
\* u.ts_ms, and leaves each ladder as going through u's levels in list order
\* leaves it: a named price is absent if its last entry has size 0 and has the
\* size of its last entry otherwise; a price that u does not name keeps its
\* size. The ladders an apply starts from are those of the apply before it in
\* the same call, or those update() was called with.
C22_IncrementalApply ==
    [][\A i \in DOMAIN applied' :
        LET e == applied'[i]
            before == IF i = 1 THEN [bids |-> bids, asks |-> asks]
                      ELSE applied'[i - 1].left
        IN  ~e.is_snapshot =>
                /\ e.left.cur_sequence = e.id
                /\ e.left.ts_ms = e.ts_ms
                /\ e.left.bids = Effect(before.bids, e.levels.bids)
                /\ e.left.asks = Effect(before.asks, e.levels.asks)
                /\ \A p \in (DOMAIN before.bids) \ Named(e.levels.bids) :
                        p \in DOMAIN e.left.bids /\ e.left.bids[p] = before.bids[p]
                /\ \A p \in (DOMAIN before.asks) \ Named(e.levels.asks) :
                        p \in DOMAIN e.left.asks /\ e.left.asks[p] = before.asks[p]
                /\ i = Len(applied') =>
                        /\ cur_sequence' = e.id
                        /\ ts_ms' = e.ts_ms
                        /\ bids' = e.left.bids
                        /\ asks' = e.left.asks
       ]_vars

\* Bids at prices 0 and 1, asks at price 2, and the incremental with id 2 applied
\* next after the one that had set the bid at 1: its bid of size 0 at price 1
\* removes that level and leaves the bid at 0, its two asks at price 3, in list
\* order, leave size 1 there and the ask at 2 as it was.
C22_Witness ==
    /\ sequencer = "Binance"
    /\ state = "Processing"
    /\ Len(applied) = 1
    /\ ~applied[1].is_snapshot
    /\ applied[1].id = 2
    /\ applied[1].after = 1
    /\ chain.n = 2
    /\ chain.snap_id = 1
    /\ applied[1].levels.bids = <<PriceSize(1, ZERO_SIZE)>>
    /\ applied[1].levels.asks = <<PriceSize(3, 2), PriceSize(3, 1)>>
    /\ DOMAIN bids = {0}
    /\ DOMAIN asks = {2, 3}
    /\ asks[3] = 1
    /\ asks[2] = 2
    /\ cur_sequence = 2
    /\ ts_ms = applied[1].ts_ms

\* The depths snapshot() is asked for: none, the processor's, and one more.
Depths == 0..(Depth + 1)

\* The entries of a side are levels of the ladder with their sizes, as many as
\* the smaller of depth and the ladder, and no level left out is better than
\* one taken: higher for the bids (desc), lower for the asks.
Top(side, ladder, depth, desc) ==
    /\ Len(side) = IF depth < Cardinality(DOMAIN ladder) THEN depth
                   ELSE Cardinality(DOMAIN ladder)
    /\ \A i \in DOMAIN side :
            /\ side[i][1] \in DOMAIN ladder
            /\ side[i][2] = ladder[side[i][1]]
            /\ \A q \in (DOMAIN ladder) \ { side[j][1] : j \in DOMAIN side } :
                    IF desc THEN q < side[i][1] ELSE q > side[i][1]
    /\ \A i \in 1..(Len(side) - 1) :
            IF desc THEN side[i][1] > side[i + 1][1] ELSE side[i][1] < side[i + 1][1]

\* C23: snapshot(depth) is the min(depth, |bids|) highest bids by strictly
\* descending price, the min(depth, |asks|) lowest asks by strictly ascending
\* price, each with the size the ladder holds, and the ts_ms of the FSM.
C23_SnapshotProjection ==
    \A d \in Depths :
        LET s == snapshot(Fsm, d)
        IN  /\ Top(s.bids, bids, d, TRUE)
            /\ Top(s.asks, asks, d, FALSE)
            /\ s.ts_ms = ts_ms

\* Two bids and two asks: depth 1 gives the bid at 1 and the ask at 2, depth 2
\* all four.
C23_Witness ==
    /\ DOMAIN bids = {0, 1}
    /\ DOMAIN asks = {2, 3}
    /\ ts_ms > 0
    /\ snapshot(Fsm, 1).bids = <<<<1, bids[1]>>>>
    /\ snapshot(Fsm, 1).asks = <<<<2, asks[2]>>>>
    /\ snapshot(Fsm, 2).bids = <<<<1, bids[1]>>, <<0, bids[0]>>>>
    /\ snapshot(Fsm, 2).asks = <<<<2, asks[2]>>, <<3, asks[3]>>>>

\* ------------------------------------------------------------------------
\* C26: the RequestSnapshot handler
\* ------------------------------------------------------------------------

\* This step took a RequestSnapshot from the head of the mailbox.
HandledRequest ==
    /\ book_msg_rx # <<>>
    /\ Head(book_msg_rx).kind = "RequestSnapshot"
    /\ book_msg_rx' = Tail(book_msg_rx)

\* C26: the handler of a RequestSnapshot sends snapshot(depth) of the FSM as it
\* is, in every FSM state and with snap_at set or not, whether the send fails or
\* not, and changes nothing but the mailbox it took the message from: the FSM,
\* its buffer, snap_at and pub_at are unchanged, nothing is published and no
\* fetch is begun.
C26_RequestSnapshot ==
    [][HandledRequest =>
        /\ reply' # None
        /\ reply'[1].sent = snapshot(Fsm, Depth)
        /\ Top(reply'[1].sent.bids, bids, Depth, TRUE)
        /\ Top(reply'[1].sent.asks, asks, Depth, FALSE)
        /\ reply'[1].sent.ts_ms = ts_ms
        /\ UNCHANGED <<fsm_vars, call_vars>>
        /\ UNCHANGED <<snap_at, pub_at, published, pc, failures, since_fail, now>>
       ]_vars

\* A request answered after a failed fetch: snap_at is unset, the FSM waits for
\* its snapshot with an update buffered and holds the book of the snapshot
\* before; the send failed.
C26_Witness ==
    /\ reply # None
    /\ ~reply[1].ok
    /\ reply[1].sent.bids # <<>>
    /\ snap_at = None
    /\ state = "WaitingForSnapshot"
    /\ buffer # <<>>
    /\ since_fail >= 1
    /\ published # <<>>

\* ------------------------------------------------------------------------
\* C27, C28: the replay buffer
\* ------------------------------------------------------------------------

\* C27 as claimed: the buffer never holds more orders than the capacity it was
\* created with.
C27_BoundedBuffer ==
    Len(buffer) <= BufCapacity

\* C28: when update() has returned, the buffer is empty unless the FSM is in
\* WaitingForSnapshot, and a call that returned RetrieveSnapshot (a reset, or the
\* first call of all) has left the FSM in WaitingForSnapshot with an empty buffer.
C28_BufferOnlyWhileWaiting ==
    /\ state # "WaitingForSnapshot" => buffer = <<>>
    /\ action = "RetrieveSnapshot" =>
        /\ state = "WaitingForSnapshot"
        /\ buffer = <<>>

\* A snapshot met two buffered orders: the first was its first event, the second
\* the next one; the FSM is in Processing and the buffer is empty.
C28_Witness ==
    /\ sequencer = "Binance"
    /\ fed # <<>>
    /\ from = "WaitingForSnapshot"
    /\ order.is_snapshot
    /\ Len(fed) = 3
    /\ fed[2].st = "Synchronizing"
    /\ fed[3].st = "Processing"
    /\ Len(applied) = 3
    /\ state = "Processing"
    /\ dropped = 0
    /\ buffer = <<>>

\* ------------------------------------------------------------------------
\* C24, C25: the Book's handles and channels
\* ------------------------------------------------------------------------

\* C24 as claimed: once the processor has published and every BookWriter is
\* dropped, run returns (unless a new BookWriter is made), with the Book handle
\* alive or not.
C24_EndsWithoutWriters ==
    (writers = 0 /\ published # <<>>) ~> (pc = "done" \/ writers > 0)

\* The snapshots sent on the publication channel so far, oldest first.
Emitted == [i \in DOMAIN published |-> published[i].snapshot]

\* This step ran on_update up to the send of a publication that was due: an
\* Update was taken or the awaited fetch returned, update() returned Ok, and
\* now had reached the scheduled time.
ReachedSend ==
    /\ \/ pc = "fetch" /\ pc' # "fetch"
       \/ pc = "recv" /\ book_msg_rx # <<>> /\ book_msg_rx' = Tail(book_msg_rx)
    /\ action' = "Ok"
    /\ snap_at' # None
    /\ now >= Base(snap_at') + pub_interval

\* C25: the mailbox never holds more than its capacity and a producer's send
\* does not complete while it is full; the publication channel never holds more
\* than its capacity; a publication that is due while the channel is full is
\* not dropped: the processor awaits the send, handles nothing meanwhile, and
\* the snapshot is sent when the consumer has made room. While the Book handle
\* is alive the snapshots sent are those the consumer has received followed by
\* those in the channel, in the order of their sending.
C25_Backpressure ==
    [][/\ Len(book_msg_rx') <= MaxMailbox
       /\ Len(book_msg_rx) = MaxMailbox => Len(book_msg_rx') <= MaxMailbox
                                           /\ book_msg_rx' \in {book_msg_rx, Tail(book_msg_rx)}
       /\ Len(book_pub_rx') <= MaxPub
       /\ book' => received' \o book_pub_rx' = [i \in DOMAIN published' |-> published'[i].snapshot]
       /\ (ReachedSend /\ book) =>
            IF Len(book_pub_rx) = MaxPub
            THEN /\ pc' = "send"
                 /\ sending' # None
                 /\ sending'[1].snapshot = snapshot(FsmAfter, Depth)
                 /\ published' = published
                 /\ book_pub_rx' = book_pub_rx
            ELSE /\ pc' = "recv"
                 /\ Len(published') = Len(published) + 1
                 /\ published'[Len(published')].snapshot = snapshot(FsmAfter, Depth)
                 /\ book_pub_rx' = Append(book_pub_rx, snapshot(FsmAfter, Depth))
       /\ pc = "send" =>
            /\ sending # None
            /\ UNCHANGED <<fsm_vars, call_vars, snap_at>>
            /\ Len(book_msg_rx') >= Len(book_msg_rx)
            /\ (book /\ Len(book_pub_rx) = MaxPub) => pc' = "send" /\ sending' = sending
            /\ (book /\ pc' # "send") =>
                /\ published' = Append(published, sending[1])
                /\ book_pub_rx' = Append(book_pub_rx, sending[1].snapshot)
                /\ pub_at' = Some(sending[1].pub_at)
      ]_vars

\* The publication channel is full and the processor awaits the send of one
\* more snapshot, with one received by the consumer before; the mailbox is full
\* too, so that the producer waits.
C25_Witness ==
    /\ book
    /\ pc = "send"
    /\ sending # None
    /\ Len(book_pub_rx) = MaxPub
    /\ Len(received) = 1
    /\ Len(published) = MaxPub + 1
    /\ Len(book_msg_rx) = MaxMailbox
    /\ writers > 0

\* Whether key k is the key of an element of the list l.
Present(l, k) == \E i \in DOMAIN iter(l) : iter(l)[i][1] = k

\* C29: a push_back(k, v) call on a Queue or a LinkedList that has an element
\* of key k returns false and leaves the elements, their order and the length
\* as they were; any other push_back(k, v) call returns true and makes (k, v)
\* the new last element, after the elements the list had.
C29_PushBack ==
    [][ret'.op = "push_back" =>
        IF Present(list, ret'.key)
        THEN /\ ret'.out = FALSE
             /\ iter(list') = iter(list)
             /\ len(list') = len(list)
        ELSE /\ ret'.out = TRUE
             /\ iter(list') = Append(iter(list), <<ret'.key, ret'.value>>)
             /\ len(list') = len(list) + 1
      ]_vars

\* The values successive pop_front() calls return until one returns None.
RECURSIVE Drain(_)
Drain(l) ==
    LET r == pop_front(l)
    IN  IF r.ret = None THEN <<>> ELSE <<r.ret[1]>> \o Drain(r.list)

\* The sequence s without its elements of key k.
RECURSIVE Rest(_, _)
Rest(s, k) ==
    IF s = <<>> THEN <<>>
    ELSE IF Head(s)[1] = k THEN Rest(Tail(s), k)
    ELSE <<Head(s)>> \o Rest(Tail(s), k)

\* C30: a remove_key(k) call on a Queue returns true exactly when the queue
\* has an element of key k; a call that returns false leaves the queue as it
\* was; after a call that returns true the other elements are all still in the
\* queue in the order they had: front() is the first of them and successive
\* pop_front() calls return their values in that order.
C30_RemoveKey ==
    [][ret'.op = "remove_key" =>
        LET rest == Rest(iter(list), ret'.key)
        IN  /\ ret'.out = Present(list, ret'.key)
            /\ ~ret'.out => iter(list') = iter(list) /\ len(list') = len(list)
            /\ ret'.out =>
                /\ iter(list') = rest
                /\ front(list') = (IF rest = <<>> THEN None ELSE Some(rest[1][2]))
                /\ Drain(list') = [i \in DOMAIN rest |-> rest[i][2]]
      ]_vars

\* The slots of the live nodes of the list l, and the keys of those nodes.
Live(l) == { id \in 0..(Len(l.backing.entries) - 1) : Contains(l.backing, id) }
LiveKeys(l) == { Get(l.backing, id).key : id \in Live(l) }

\* C31: in a Queue, head and tail are both None if the queue is empty and
\* both name a live node if it is not: head the node that has no node before
\* it, tail the node that has no node after it; the key dictionary holds the
\* keys of the live nodes, each with the slot of its node.
C31_QueueInvariant ==
    kind = "Queue" =>
        /\ (list.head = None /\ list.tail = None) <=> (len(list) = 0)
        /\ len(list) > 0 =>
            /\ list.head # None /\ list.tail # None
            /\ list.head[1] \in Live(list) /\ list.tail[1] \in Live(list)
            /\ Get(list.backing, list.head[1]).prev = None
            /\ Get(list.backing, list.tail[1]).next = None
        /\ DOMAIN list.keys = LiveKeys(list)
        /\ \A k \in DOMAIN list.keys :
            list.keys[k] \in Live(list) /\ Get(list.backing, list.keys[k]).key = k

\* The keys iter() yields, in its order.
IterKeys(l) == [i \in DOMAIN iter(l) |-> iter(l)[i][1]]

\* The sequence s without its elements outside the set K.
RECURSIVE Only(_, _)
Only(s, K) ==
    IF s = <<>> THEN <<>>
    ELSE IF Head(s) \in K THEN <<Head(s)>> \o Only(Tail(s), K)
    ELSE Only(Tail(s), K)

\* C32: after any call on a Queue, iter() yields len() entries, one for each
\* key in the queue and none twice, in insertion order: the keys that were in
\* the queue before the call keep their order, and a key the call has pushed
\* comes last.
C32_IterVisitsAll ==
    [][kind = "Queue" =>
        LET before == IterKeys(list)
            after == IterKeys(list')
            old == { before[i] : i \in DOMAIN before }
        IN  /\ Len(after) = len(list')
            /\ { after[i] : i \in DOMAIN after } = DOMAIN list'.keys
            /\ \A i, j \in DOMAIN after : after[i] = after[j] => i = j
            /\ Only(after, old) = Only(before, { after[i] : i \in DOMAIN after })
            /\ \A i \in DOMAIN after : after[i] \notin old => i = Len(after)
      ]_vars

\* C33: a pop_front() call on an empty Queue or LinkedList returns None and
\* changes nothing; on any other it returns the value of the first element,
\* the oldest still in the list, and removes that element alone, after which
\* a push_back of its key is accepted.
C33_PopFront ==
    [][ret'.op = "pop_front" =>
        IF len(list) = 0
        THEN ret'.out = None /\ list' = list
        ELSE /\ iter(list) # <<>>
             /\ ret'.out = Some(iter(list)[1][2])
             /\ iter(list') = Tail(iter(list))
             /\ len(list') = len(list) - 1
             /\ \A v \in Values : push_back(list', iter(list)[1][1], v).ret
      ]_vars

\* C35: mid() of a snapshot with both sides non-empty returns
\* floor((best_bid + best_ask) / 2), the sum taken over the integers, whatever
\* the two u64 prices are.
C35_MidIsTheMean ==
    LET s == snapshot(Fsm, Depth)
    IN  (s.bids # <<>> /\ s.asks # <<>>) =>
            mid_outcomes(s) = {Returned((s.bids[1][1] + s.asks[1][1]) \div 2)}

\* The book the FSM holds: its ladders, cur_sequence and ts_ms.
Held == [cur_sequence |-> cur_sequence, ts_ms |-> ts_ms, bids |-> bids, asks |-> asks]

\* C36: an update() call that ends in a reset (a gap in Processing, a stale
\* update in Synchronizing or in the drain) leaves the FSM in
\* WaitingForSnapshot with an empty buffer and with the book it held right
\* before the reset: the book of before the call if the call applied nothing,
\* the book its last apply left otherwise. While the FSM stays in
\* WaitingForSnapshot the book changes only by the apply of a snapshot: an
\* incremental met there leaves what snapshot(depth) returns as it was, for
\* every depth.
C36_ResetKeepsBook ==
    [][/\ (action' = "RetrieveSnapshot" /\ fed'[1].st # "Init") =>
            /\ state' = "WaitingForSnapshot"
            /\ buffer' = <<>>
            /\ Held' = IF applied' = <<>> THEN Held
                       ELSE applied'[Len(applied')].left
       /\ (state = "WaitingForSnapshot" /\ fed' # <<>> /\ ~fed'[1].o.is_snapshot) =>
            /\ state' = "WaitingForSnapshot"
            /\ Held' = Held
            /\ \A d \in Depths : snapshot(Fsm, d)' = snapshot(Fsm, d)
       /\ (state = "WaitingForSnapshot" /\ Held' # Held) =>
            /\ applied' # <<>>
            /\ applied'[1].is_snapshot
            /\ applied'[1].st = "WaitingForSnapshot"
      ]_vars

\* A gap in Processing has reset an FSM whose ladders are not empty: it waits
\* for a snapshot with the book of before the gap.
C36_Witness ==
    /\ state = "WaitingForSnapshot"
    /\ action = "RetrieveSnapshot"
    /\ from = "Processing"
    /\ applied = <<>>
    /\ bids # EmptyLadder
    /\ asks # EmptyLadder
    /\ cur_sequence > 0

\* This step is the return of an awaited fetch_snapshot with Ok: the snapshot
\* is fed to the FSM.
Fetched ==
    /\ pc = "fetch"
    /\ failures' = failures
    /\ <<fed, applied, pc, snap_at>>' # <<fed, applied, pc, snap_at>>

\* C37: the processor awaits fetch_snapshot only right after an update() call
\* that returned RetrieveSnapshot, and the FSM is in WaitingForSnapshot for as
\* long as the fetch is awaited; the snapshot a fetch returns is fed to the FSM
\* in WaitingForSnapshot and applied there, first of the call: it is not
\* buffered, and the book it leaves is the snapshot's.
C37_FetchedSnapshotApplied ==
    [][/\ pc' = "fetch" =>
            /\ state' = "WaitingForSnapshot"
            /\ action' = "RetrieveSnapshot"
            /\ pc = "fetch" => UNCHANGED <<state, asks, bids, buffer, cur_sequence, ts_ms>>
       /\ Fetched =>
            /\ state = "WaitingForSnapshot"
            /\ fed'[1].st = "WaitingForSnapshot"
            /\ fed'[1].o.is_snapshot
            /\ applied' # <<>>
            /\ applied'[1].is_snapshot
            /\ applied'[1].st = "WaitingForSnapshot"
            /\ applied'[1].id = fed'[1].o.id
            /\ applied'[1].left =
                [cur_sequence |-> fed'[1].o.id,
                 ts_ms |-> fed'[1].o.ts_ms,
                 bids |-> apply_levels(EmptyLadder, fed'[1].o.bids),
                 asks |-> apply_levels(EmptyLadder, fed'[1].o.asks)]
            /\ Len(buffer') <= Len(buffer)
            /\ state' # "WaitingForSnapshot"
      ]_vars

\* A second fetch has returned, later than the first: its snapshot was fed in
\* WaitingForSnapshot, after a reset, and applied.
C37_Witness ==
    /\ pc # "fetch"
    /\ anchor # None
    /\ snap_at # None
    /\ snap_at # anchor
    /\ fed # <<>>
    /\ order.is_snapshot
    /\ from = "WaitingForSnapshot"
    /\ applied # <<>>
    /\ applied[1].is_snapshot
    /\ state # "WaitingForSnapshot"

\* C38 as claimed: when each fetch_snapshot call returns, the handling of an
\* inbound Update ends: a processor that awaits a fetch comes to await the
\* mailbox again.
C38_UpdateHandlingEnds ==
    (pc = "fetch") ~> (pc = "recv")

\* C38, amended: the fetch loop of on_update calls update() at most twice for
\* an inbound Update: an update() call that returns RetrieveSnapshot leaves the
\* replay buffer empty, so that the buffer is empty while a fetch is awaited;
\* the snapshot the fetch returns is the only order its update() call
\* dispatches, and the call returns Ok. on_update then returns, unless a
\* publication is due and the publication channel is full: then it awaits the
\* send, and returns when the send ends.
C38_FetchLoopEnds ==
    [][/\ action' = "RetrieveSnapshot" => buffer' = <<>>
       /\ pc' = "fetch" => buffer' = <<>>
       /\ Fetched =>
            /\ Len(fed') = 1
            /\ action' = "Ok"
            /\ pc' \in {"recv", "send"}
            /\ pc' = "send" => book /\ Len(book_pub_rx) = MaxPub
       /\ (pc = "send" /\ pc' # "send") => pc' = "recv"
      ]_vars

\* An awaited fetch has returned after a gap in Processing: the handling of
\* the update that showed the gap has ended with its second update() call.
C38_Witness ==
    /\ pc = "recv"
    /\ anchor # None
    /\ snap_at # None
    /\ snap_at # anchor
    /\ fed # <<>>
    /\ Len(fed) = 1
    /\ order.is_snapshot
    /\ action = "Ok"
    /\ state = "Synchronizing"
    /\ buffer = <<>>

\* ------------------------------------------------------------------------
\* The FSM side by side with a venue's book
\* ------------------------------------------------------------------------

\* The levels the venue's book change of id i sets, with their new sizes; a
\* size of zero takes the level away.
VenueChange(i) ==
    CASE i % 4 = 1 -> [bids |-> <<PriceSize(1, 1)>>, asks |-> <<>>]
      [] i % 4 = 2 -> [bids |-> <<>>, asks |-> <<PriceSize(3, 2), PriceSize(4, 1)>>]
      [] i % 4 = 3 -> [bids |-> <<PriceSize(1, 0), PriceSize(2, 1)>>, asks |-> <<>>]
      [] OTHER -> [bids |-> <<PriceSize(2, 2)>>, asks |-> <<PriceSize(3, 0)>>]

\* The venue's true book at id n: the book at id 0 after the changes 1..n.
RECURSIVE VenueAt(_)
VenueAt(n) ==
    IF n = 0 THEN [bids |-> (2 :> 1), asks |-> (3 :> 1)]
    ELSE [bids |-> Effect(VenueAt(n - 1).bids, VenueChange(n).bids),
          asks |-> Effect(VenueAt(n - 1).asks, VenueChange(n).asks)]

\* The levels of a ladder as a list.
Levels(ladder) == take_ascending(ladder, Cardinality(DOMAIN ladder))

\* The prices of a side that the changes first..last set, each with its size
\* in the book at id last, zero if the level is gone there.
Changed(side, first, last) ==
    LET named == UNION { Named(VenueChange(i)[side]) : i \in first..last }
        at == VenueAt(last)[side]
    IN  Levels([q \in named |-> IF q \in DOMAIN at THEN at[q] ELSE 0])

\* The venue's stream of depth updates: each ends at one of these ids and
\* starts right after the one before it.
VenueEnds == { i \in 1..MaxEvent : i % 3 # 2 \/ i = MaxEvent }
VenueFirst(last) == 1 + Max({0} \cup { e \in VenueEnds : e < last })

VenueUpdates ==
    { DepthUpdateOrder(VenueFirst(l), l, VenueFirst(l) - 1,
                       Changed("bids", VenueFirst(l), l),
                       Changed("asks", VenueFirst(l), l), l + 1) :
        l \in VenueEnds }

\* The venue's REST snapshots: its true book at any id.
VenueSnapshots ==
    { SnapshotOrder(n, Levels(VenueAt(n).bids), Levels(VenueAt(n).asks), n + 1) :
        n \in 0..MaxEvent }

\* update() with any of the venue's depth updates or snapshots, in any order:
\* updates are lost, come again or late, snapshots are of any age.
updateVenue ==
    /\ \E o \in VenueUpdates \cup VenueSnapshots :
        /\ BufferHasRoom(o)
        /\ FsmUpdate(o)
    /\ UNCHANGED <<proc_vars, list_vars>>

InitVenue ==
    /\ FsmInit
    /\ BookNew(PubInterval)
    /\ ListNew("Queue")
    /\ writers = 0
    /\ sequencer = "Binance"

NextVenue == updateVenue

SpecVenue == InitVenue /\ [][NextVenue]_vars

\* C34: with the reference sequencer, fed from a venue's contiguous stream of
\* depth updates and its true snapshots, an FSM in Processing holds the
\* venue's book at cur_sequence, whatever updates were lost and whatever
\* resyncs and replays took place.
C34_TracksVenue ==
    state = "Processing" =>
        /\ bids = VenueAt(cur_sequence).bids
        /\ asks = VenueAt(cur_sequence).asks

\* A snapshot taken within the range of a buffered depth update was applied
\* and the update replayed on it, as first event, in one call; the FSM is in
\* Processing at the update's id, where the venue's book differs from the
\* snapshot's.
C34_Witness ==
    /\ state = "Processing"
    /\ Len(applied) = 2
    /\ applied[1].is_snapshot
    /\ ~applied[2].is_snapshot
    /\ applied[2].o.first_update_id <= applied[1].id
    /\ applied[1].id < applied[2].id
    /\ cur_sequence = applied[2].id
    /\ VenueAt(applied[1].id) # VenueAt(applied[2].id)

====
